---- MODULE Spec2Model ----
(***************************************************************************)
(* Real-time fan-out core of the MedSoft Chief servers.                    *)
(*                                                                         *)
(* Two implementations of the same WSManager / chief_ws pair are modelled  *)
(* side by side, selected by the variable impl:                            *)
(*   "chief_server"  src/MedSoft/HL7 2/HL7/chief_server.py                 *)
(*   "fhir"          src/MedSoft/FHIR/main.py                              *)
(*                                                                         *)
(* Every asyncio task is a process of the model; an action is the code a   *)
(* task runs between two suspension points (await ws.accept(),             *)
(* await ws.send_json(..), await ws.receive_text()).  send_json hands the  *)
(* frame to the transport before it suspends, so a frame is delivered at   *)
(* the start of a send and the sender resumes later, in FIFO order per     *)
(* connection; a send on a dead transport raises.                          *)
(*                                                                         *)
(* The write path (register_patient, fhir_ingest, api_delete_patient) works *)
(* on table patients, a set of rows, and answers each request; Reception's  *)
(* register (src/MedSoft/HL7/main.py) stores a patient and posts it to the  *)
(* Chief of chief_server.py.                                                *)
(***************************************************************************)
EXTENDS Integers, Sequences, FiniteSets, TLC

\* ------------------------------------------------------------- bounds
MaxConn == 2
MaxBcast == 2
MaxPings == 1
MaxTicks == 3
MaxPid == 2
MaxRejects == 2
MaxReq == 2
MaxLiveBcast == 1

\* -------------------------------------------------- program constants
Timeout == 30
Limit == 10

Conns == 1..MaxConn
Bcasts == 1..MaxBcast
Pids == 1..MaxPid
Reqs == 1..MaxReq
TickSteps == {1, Timeout}

\* Task id of a connection's own chief_ws handler in a send queue
\* (broadcast tasks are numbered from 1).
HandlerTask == 0

VARIABLES
    impl,          \* which server is running: "chief_server" or "fhir"
    timed,         \* TRUE when time is tracked by Tick (the heartbeat check)
    active,        \* WSManager.active: the registry, a Python list
    pc,            \* pc[ws]: where the chief_ws handler task of ws stands
    client_state,  \* ws.client_state (starlette WebSocketState)
    link,          \* transport of ws: "up" or "down" (peer gone / killed)
    received,      \* received[ws]: frames handed to ws's transport, in order
    sendq,         \* sendq[ws]: tasks suspended inside a send to ws, FIFO
    bc,            \* bc[b]: the b-th ws_manager.broadcast(..) task
    nb,            \* number of broadcast tasks created so far
    patients,      \* ids (PRIMARY KEY) of the rows of table patients
    nextId,        \* next AUTOINCREMENT id of table patients (fhir)
    rows,          \* table patients: the set of its rows (patients = Ids(rows))
    hl7_messages,  \* chief_server table hl7_messages: the raw column, in order
    fhir_messages, \* fhir table fhir_messages: the raw column, in order
    resp,          \* the last response of a write-path handler
    returned,      \* number of write-path requests answered with a 2xx
    rejected,      \* number of write-path requests answered with a 4xx
    rc_patients,   \* Reception table patients: the set of its rows
    rc_hl7,        \* Reception table hl7_messages: the raw column, in order
    rc_req,        \* rc_req[r]: the r-th call of Reception's register
    added,         \* connections connect() has appended
    removedBy,     \* removedBy[ws]: code paths that called disconnect(ws)
    fault,         \* TRUE once list.remove raised ValueError
    elapsed,       \* elapsed[ws]: time since the current wait_for began
    idle,          \* idle[ws]: time since loop entry or the last inbound frame
    pingsIdle,     \* pingsIdle[ws]: pings sent during that idle period
    ticks          \* number of Tick steps taken

vars == <<impl, timed, active, pc, client_state, link, received, sendq, bc, nb,
          patients, nextId, rows, hl7_messages, fhir_messages, resp, returned,
          rejected, rc_patients, rc_hl7, rc_req, added, removedBy, fault,
          elapsed, idle, pingsIdle, ticks>>

connVars == <<pc, client_state, link>>
chiefDb == <<patients, nextId, rows, hl7_messages, fhir_messages>>
httpVars == <<resp, returned, rejected>>
receptionVars == <<rc_patients, rc_hl7, rc_req>>
dbVars == <<chiefDb, httpVars, receptionVars>>
clockVars == <<elapsed, idle, pingsIdle, ticks>>

\* ------------------------------------------------------------ helpers
Range(s) == {s[i] : i \in 1..Len(s)}

NoDup(s) == \A i, j \in 1..Len(s) : s[i] = s[j] => i = j

Min(a, b) == IF a < b THEN a ELSE b

Max(S) == CHOOSE x \in S : \A y \in S : y <= x

\* Number of elements of s that satisfy the test frame.src = src, type = t.
RECURSIVE CountFrames(_, _, _)
CountFrames(s, t, src) ==
    IF s = <<>> THEN 0
    ELSE (IF Head(s).type = t /\ Head(s).src = src THEN 1 ELSE 0)
         + CountFrames(Tail(s), t, src)

\* Index of the first frame of broadcast b in s, 0 when there is none.
FirstFrom(s, b) ==
    IF \E i \in 1..Len(s) : s[i].src = b
    THEN CHOOSE i \in 1..Len(s) :
            s[i].src = b /\ \A j \in 1..(i - 1) : s[j].src # b
    ELSE 0

\* ------------------------------------------------- persistence (SQLite)
\* SELECT .. FROM patients ORDER BY id DESC LIMIT n
RECURSIVE fetchNoLimit(_, _)
fetchNoLimit(P, n) ==
    IF P = {} THEN <<>>
    ELSE <<Max(P)>> \o fetchNoLimit(P \ {Max(P)}, n)

RECURSIVE fetch_last_patients(_, _)
fetch_last_patients(P, n) ==
    IF P = {} \/ n = 0 THEN <<>>
    ELSE <<Max(P)>> \o fetch_last_patients(P \ {Max(P)}, n - 1)

fetch_all_patients(P) == fetch_last_patients(P, Limit)

\* str.strip() on the strings the requests carry.
strip(s) ==
    CASE s = " Ann " -> "Ann"
      [] s = " Lee " -> "Lee"
      [] s = " " -> ""
      [] OTHER -> s

\* A table is the set of its rows, each a record with its id column.
Ids(R) == {r.id : r \in R}

RowOf(R, id) == CHOOSE r \in R : r.id = id

\* The list comprehension that turns the selected rows into dicts: ids is the
\* id column of the result in order, R the table.
patient_dicts(ids, R) ==
    [i \in 1..Len(ids) |->
        IF impl = "fhir"
        THEN [id |-> ids[i], last_name |-> RowOf(R, ids[i]).family,
              first_name |-> RowOf(R, ids[i]).given,
              dob |-> RowOf(R, ids[i]).birthDate,
              fhir_id |-> RowOf(R, ids[i]).fhir_id]
        ELSE [id |-> ids[i], first_name |-> RowOf(R, ids[i]).first_name,
              last_name |-> RowOf(R, ids[i]).last_name,
              dob |-> RowOf(R, ids[i]).dob]]

\* fetch_all_patients() / fetch_last_patients(10) on the table R.
PatientList(R) == patient_dicts(fetch_all_patients(Ids(R)), R)

\* INSERT INTO .. of a row whose id no stored row has (AUTOINCREMENT).
InsertRow(R, row) == R \cup {row}

insertWithoutReplace(R, row) == R \cup {row}

\* INSERT OR REPLACE INTO .. on PRIMARY KEY id: a stored row with the id of
\* the new one is deleted, then the new row is inserted.
InsertOrReplace(R, row) == {r \in R : r.id # row.id} \cup {row}

\* DELETE .. WHERE id = ?
DeleteRow(R, id) == {r \in R : r.id # id}

\* --------------------------------------------------------- request inputs
\* dob.replace('-', '')
dob_digits(dob) == IF dob = "2000-01-01" THEN "20000101" ELSE dob

\* Reception's HL7 ADT^A04 text, by the fields the PID segment carries (the
\* MSH timestamp and message id are left out).
build_hl7_adt_a04(patient_id, first_name, last_name, dob) ==
    <<"ADT^A04", patient_id, last_name, first_name, dob_digits(dob)>>

\* PatientData bodies of POST /api/register-patient (chief_server); hl7_raw
\* is <<>> when the body has none.
PatientData(patient_id, first_name, last_name, dob, hl7_raw) ==
    [patient_id |-> patient_id, first_name |-> first_name,
     last_name |-> last_name, dob |-> dob, hl7_raw |-> hl7_raw]

Deliveries ==
    {PatientData(id, fn, " Lee ", "2000-01-01", h) :
        id \in Pids, fn \in {"Ann", " Ann ", "Bob"},
        h \in {<<>>, build_hl7_adt_a04(0, "Ann", "Lee", "2000-01-01")}}

\* PatientIn bodies of Reception's POST /api/register (dob is valid: the
\* validator has run).
PatientIns ==
    [first_name : {"Ann", " Ann "}, last_name : {" Lee "}, dob : {"2000-01-01"}]

\* What the POST to Chief ends in, as httpx reports it.
Outcomes == {"success", "timeout", "connect_error", "non_2xx"}

\* A call of Reception's register that has not begun.
NoRequest ==
    [pc |-> "idle",
     p |-> [first_name |-> "", last_name |-> "", dob |-> ""],
     patient_id |-> 0,
     payload |-> PatientData(0, "", "", "", <<>>),
     delivered |-> FALSE, outcome |-> "none",
     result |-> [status |-> 0, id |-> 0, first_name |-> "", last_name |-> "",
                 dob |-> ""]]

\* The deliveries the connection-level specifications draw from.
PlainDeliveries ==
    {d \in Deliveries : d.first_name = "Ann" /\ d.hl7_raw # <<>>}

\* Content-Type headers of POST /fhir/Patient ("" when the header is absent).
ContentTypes ==
    {"application/fhir+json", "Application/JSON; charset=utf-8", "text/plain", ""}

\* content-type.split(";")[0].strip().lower()
media_type(ct) ==
    IF ct = "Application/JSON; charset=utf-8" THEN "application/json" ELSE ct

\* Bodies of POST /fhir/Patient: raw names the bytes, parses tells whether
\* json.loads accepts them, the other fields are the parsed object's.
PatientBody(raw, given, family) ==
    [raw |-> raw, parses |-> TRUE, resourceType |-> "Patient",
     family |-> family, given |-> given, birthDate |-> "2000-01-01",
     id |-> "f-1"]

Bodies ==
    {PatientBody("ann", <<" Ann ">>, " Lee "),
     PatientBody("bob", <<"Bob">>, "Lee"),
     PatientBody("nogiven", <<>>, "Lee"),
     PatientBody("blank", <<"Ann">>, " "),
     [PatientBody("obs", <<"Ann">>, "Lee") EXCEPT !.resourceType = "Observation"],
     [PatientBody("garbage", <<>>, "") EXCEPT !.parses = FALSE]}

Requests == [content_type : ContentTypes, body : Bodies]

\* The requests the connection-level specifications draw from.
PlainRequests ==
    {q \in Requests : q.content_type = "application/fhir+json"
                      /\ q.body.raw = "ann"}

\* Tables the server may find in its database file when it starts: the rows
\* 1..n of earlier runs.
StoredAtStart == {0, Limit + 1}

StoredRow(id) ==
    IF impl = "fhir"
    THEN [id |-> id, fhir_id |-> "f-0", family |-> "Lee", given |-> "Ann",
          birthDate |-> "2000-01-01"]
    ELSE [id |-> id, first_name |-> "Ann", last_name |-> "Lee",
          dob |-> "2000-01-01"]

\* ---------------------------------------------------------- responses
\* What a write-path handler answers: the HTTP status, the integer id and
\* the string id of the body (0 and "" when the body has none).
NoResponse == [handler |-> "none", status |-> 0, id |-> 0, ref |-> ""]

Response(handler, status, id, ref) ==
    [handler |-> handler, status |-> status, id |-> id, ref |-> ref]

\* ------------------------------------------------------------- frames
PatientsFrame(src, data) == [type |-> "patients", src |-> src, data |-> data]
PingFrame == [type |-> "ping", src |-> HandlerTask, data |-> <<>>]

\* The dict handed to broadcast(): its data and whether json.dumps accepts it.
Message(data, ok) == [data |-> data, serializable |-> ok]

\* --------------------------------------------------------- WSManager
\* Python list.remove(x): drops the first occurrence, ValueError if absent.
ListRemove(l, x) ==
    IF x \in Range(l)
    THEN LET i == CHOOSE k \in 1..Len(l) :
                     l[k] = x /\ \A j \in 1..(k - 1) : l[j] # x
         IN [list |-> SubSeq(l, 1, i - 1) \o SubSeq(l, i + 1, Len(l)),
             err |-> FALSE]
    ELSE [list |-> l, err |-> TRUE]

disconnectUnguarded(l, ws) == ListRemove(l, ws)

disconnectKeeps(l, ws) == [list |-> l, err |-> FALSE]

\* WSManager.disconnect: if ws in self.active: self.active.remove(ws)
disconnect(l, ws) ==
    IF ws \in Range(l) THEN ListRemove(l, ws) ELSE [list |-> l, err |-> FALSE]

connectAppendsTwice(l, ws) == Append(Append(l, ws), ws)

\* WSManager.connect after the accept: self.active.append(ws)
connect(l, ws) == Append(l, ws)

\* What await ws.send_json(message) raises when called now: the exception
\* class, or "none" when the frame is written to the transport.
SendRaises(ws, m) ==
    IF ~m.serializable THEN "TypeError"
    ELSE IF client_state[ws] # "CONNECTED" THEN "RuntimeError"
    ELSE IF link[ws] = "down" THEN "OSError"
    ELSE "none"

\* What a suspended send raises when it resumes.
ResumeRaises(ws) == IF link[ws] = "down" THEN "OSError" ELSE "none"

\* Exceptions that do not derive from Exception (BaseException only).
BaseOnly == {"CancelledError"}

\* The except clause of broadcast: does it catch exception class e?
BroadcastCatches(e) ==
    IF impl = "chief_server"
    THEN e \notin BaseOnly
    ELSE e \in {"WebSocketDisconnect", "ConnectionResetError",
                "BrokenPipeError", "OSError", "RuntimeError"}

\* The lifecycle state "closed" of a connection: starlette has seen the
\* disconnect (client_state), or the handler of the connection has ended.
Closed(ws) == client_state[ws] = "DISCONNECTED" \/ pc[ws] = "done"

\* An open connection: its handler is in the wait loop on a live transport.
IsOpen(ws) ==
    /\ pc[ws] \in {"wait", "ping_send"}
    /\ link[ws] = "up"
    /\ client_state[ws] = "CONNECTED"

\* ---------------------------------------------------- broadcast tasks
NoBcast ==
    [pc |-> "none", msg |-> Message(<<>>, TRUE), copy |-> <<>>, i |-> 1,
     ws |-> 0, drop |-> <<>>, start |-> <<>>, att |-> {}, failed |-> {},
     disturbed |-> FALSE, closed0 |-> {}, gone0 |-> {}]

\* A registry mutation made by another task while a broadcast is suspended
\* in a send is recorded on that broadcast.
Disturb(f, newActive, self) ==
    [b \in Bcasts |->
        IF b # self /\ f[b].pc = "send" /\ newActive # active
        THEN [f[b] EXCEPT !.disturbed = TRUE]
        ELSE f[b]]

\* ------------------------------------------------------------ initial
InitServer ==
    /\ impl \in {"chief_server", "fhir"}
    /\ active = <<>>
    /\ pc = [ws \in Conns |-> "idle"]
    /\ client_state = [ws \in Conns |-> "CONNECTING"]
    /\ link = [ws \in Conns |-> "up"]
    /\ received = [ws \in Conns |-> <<>>]
    /\ sendq = [ws \in Conns |-> <<>>]
    /\ bc = [b \in Bcasts |-> NoBcast]
    /\ nb = 0
    /\ hl7_messages = <<>>
    /\ fhir_messages = <<>>
    /\ resp = NoResponse
    /\ returned = 0
    /\ rejected = 0
    /\ rc_patients = {}
    /\ rc_hl7 = <<>>
    /\ rc_req = [r \in Reqs |-> NoRequest]
    /\ added = {}
    /\ removedBy = [ws \in Conns |-> {}]
    /\ fault = FALSE
    /\ elapsed = [ws \in Conns |-> 0]
    /\ idle = [ws \in Conns |-> 0]
    /\ pingsIdle = [ws \in Conns |-> 0]
    /\ ticks = 0

\* A server started on a fresh database file.
InitCommon == InitServer /\ patients = {} /\ nextId = 1 /\ rows = {}

Init == InitCommon /\ timed = FALSE

\* A server started on the database file of earlier runs.
InitStore ==
    /\ InitServer
    /\ timed = FALSE
    /\ \E n \in StoredAtStart :
          /\ patients = 1..n
          /\ nextId = n + 1
          /\ rows = {StoredRow(i) : i \in 1..n}

\* Reception and the Chief it notifies (chief_server).
InitReception == Init /\ impl = "chief_server"

InitTimed == InitCommon /\ timed = TRUE

\* ------------------------------------------------- chief_ws (handler)
cleanupSkipped(e) == FALSE

\* How chief_ws leaves when exception class e unwinds it:
\*   chief_server: except WebSocketDisconnect / except Exception -> disconnect
\*   fhir:         finally -> disconnect
CleanupCalls(e) == impl = "fhir" \/ e \notin BaseOnly

chief_ws_cleanup(l, ws, e) ==
    IF CleanupCalls(e) THEN disconnect(l, ws) ELSE [list |-> l, err |-> FALSE]

\* The handler task of ws ends with exception class e ("none": plain return).
\* The server closes the transport once the application has returned.
HandlerExit(ws, e) ==
    LET r == chief_ws_cleanup(active, ws, e) IN
    /\ active' = r.list
    /\ fault' = (fault \/ r.err)
    /\ removedBy' = IF CleanupCalls(e)
                    THEN [removedBy EXCEPT ![ws] = @ \cup {"handler"}]
                    ELSE removedBy
    /\ pc' = [pc EXCEPT ![ws] = "done"]
    /\ link' = [link EXCEPT ![ws] = "down"]
    /\ sendq' = [sendq EXCEPT ![ws] = SelectSeq(@, LAMBDA t : t # HandlerTask)]
    /\ bc' = Disturb(bc, r.list, 0)

\* Start of a wait cycle: await ws.receive_text() / asyncio.wait_for(.., 30)
EnterWait(ws, inbound) ==
    /\ pc' = [pc EXCEPT ![ws] = "wait"]
    /\ elapsed' = [elapsed EXCEPT ![ws] = 0]
    /\ idle' = IF inbound THEN [idle EXCEPT ![ws] = 0] ELSE idle
    /\ pingsIdle' = IF inbound THEN [pingsIdle EXCEPT ![ws] = 0] ELSE pingsIdle

\* A client opens /ws/chief: chief_ws starts and suspends in ws.accept().
Open(ws) ==
    /\ pc[ws] = "idle"
    /\ \A w \in Conns : w < ws => pc[w] # "idle"
    /\ pc' = [pc EXCEPT ![ws] = "accept"]
    /\ UNCHANGED <<impl, timed, active, client_state, link, received, sendq, bc,
                   nb, dbVars, added, removedBy, fault, clockVars>>

\* chief_ws once the accept has completed: connect() appends, then the
\* current patient list is sent and the handler suspends in that send.
AcceptedNoSnapshot(ws) ==
    /\ pc[ws] = "accept"
    /\ link[ws] = "up"
    /\ client_state' = [client_state EXCEPT ![ws] = "CONNECTED"]
    /\ active' = connect(active, ws)
    /\ added' = added \cup {ws}
    /\ sendq' = [sendq EXCEPT ![ws] = Append(@, HandlerTask)]
    /\ pc' = [pc EXCEPT ![ws] = "init_send"]
    /\ bc' = Disturb(bc, connect(active, ws), 0)
    /\ UNCHANGED <<impl, timed, link, received, nb, dbVars, removedBy, fault,
                   clockVars>>

Accepted(ws) ==
    /\ pc[ws] = "accept"
    /\ link[ws] = "up"
    /\ client_state' = [client_state EXCEPT ![ws] = "CONNECTED"]
    /\ active' = connect(active, ws)
    /\ added' = added \cup {ws}
    /\ received' = [received EXCEPT ![ws] =
           Append(@, PatientsFrame(HandlerTask, PatientList(rows)))]
    /\ sendq' = [sendq EXCEPT ![ws] = Append(@, HandlerTask)]
    /\ pc' = [pc EXCEPT ![ws] = "init_send"]
    /\ bc' = Disturb(bc, connect(active, ws), 0)
    /\ UNCHANGED <<impl, timed, link, nb, dbVars, removedBy, fault, clockVars>>

\* ws.accept() fails: the exception leaves connect(), which chief_ws calls
\* outside its try block, before the append.
AcceptFails(ws) ==
    /\ pc[ws] = "accept"
    /\ link[ws] = "down"
    /\ pc' = [pc EXCEPT ![ws] = "done"]
    /\ client_state' = [client_state EXCEPT ![ws] = "DISCONNECTED"]
    /\ UNCHANGED <<impl, timed, active, link, received, sendq, bc, nb, dbVars,
                   added, removedBy, fault, clockVars>>

\* The initial send_json returns (or raises): the handler enters its loop.
InitSent(ws) ==
    /\ pc[ws] = "init_send"
    /\ sendq[ws] # <<>> /\ Head(sendq[ws]) = HandlerTask
    /\ IF ResumeRaises(ws) = "none"
       THEN /\ sendq' = [sendq EXCEPT ![ws] = Tail(@)]
            /\ EnterWait(ws, TRUE)
            /\ UNCHANGED <<active, link, bc, removedBy, fault>>
       ELSE /\ HandlerExit(ws, ResumeRaises(ws))
            /\ UNCHANGED <<elapsed, idle, pingsIdle>>
    /\ UNCHANGED <<impl, timed, client_state, received, nb, dbVars, added, ticks>>

\* The peer sends a text frame: receive_text returns it, the loop ignores it.
ClientMessage(ws) ==
    /\ pc[ws] = "wait"
    /\ link[ws] = "up"
    /\ EnterWait(ws, TRUE)
    /\ UNCHANGED <<impl, timed, active, client_state, link, received, sendq, bc,
                   nb, dbVars, added, removedBy, fault, ticks>>

\* The peer sends a binary frame: receive_text raises KeyError (no "text").
\* Under wait_for (fhir) the inner task ends first and the handler is woken
\* afterwards.
ClientBinary(ws) ==
    /\ pc[ws] = "wait"
    /\ link[ws] = "up"
    /\ IF impl = "fhir"
       THEN /\ pc' = [pc EXCEPT ![ws] = "unwind"]
            /\ UNCHANGED <<active, link, sendq, bc, removedBy, fault>>
       ELSE HandlerExit(ws, "KeyError")
    /\ UNCHANGED <<impl, timed, client_state, received, nb, dbVars, added,
                   clockVars>>

\* receive() sees websocket.disconnect: client_state becomes DISCONNECTED and
\* WebSocketDisconnect is raised.
RecvDisconnect(ws) ==
    /\ pc[ws] = "wait"
    /\ link[ws] = "down"
    /\ client_state' = [client_state EXCEPT ![ws] = "DISCONNECTED"]
    /\ IF impl = "fhir"
       THEN /\ pc' = [pc EXCEPT ![ws] = "unwind"]
            /\ UNCHANGED <<active, link, sendq, bc, removedBy, fault>>
       ELSE HandlerExit(ws, "WebSocketDisconnect")
    /\ UNCHANGED <<impl, timed, received, nb, dbVars, added, clockVars>>

\* fhir: the exception of the inner receive task reaches chief_ws, whose
\* finally block runs.
Unwind(ws) ==
    /\ pc[ws] = "unwind"
    /\ HandlerExit(ws, "WebSocketDisconnect")
    /\ UNCHANGED <<impl, timed, client_state, received, nb, dbVars, added,
                   clockVars>>

PingCount(ws) == CountFrames(received[ws], "ping", HandlerTask)

\* fhir: wait_for times out; a ping is sent if the client is still connected.
TimeoutFires(ws) ==
    /\ impl = "fhir"
    /\ pc[ws] = "wait"
    /\ IF timed THEN elapsed[ws] = Timeout ELSE PingCount(ws) < MaxPings
    /\ IF client_state[ws] = "CONNECTED"
       THEN IF SendRaises(ws, Message(<<>>, TRUE)) = "none"
            THEN /\ received' = [received EXCEPT ![ws] = Append(@, PingFrame)]
                 /\ sendq' = [sendq EXCEPT ![ws] = Append(@, HandlerTask)]
                 /\ pc' = [pc EXCEPT ![ws] = "ping_send"]
                 /\ pingsIdle' = IF timed THEN [pingsIdle EXCEPT ![ws] = @ + 1]
                                        ELSE pingsIdle
                 /\ UNCHANGED <<active, link, bc, removedBy, fault, elapsed, idle>>
            ELSE /\ HandlerExit(ws, SendRaises(ws, Message(<<>>, TRUE)))
                 /\ UNCHANGED <<received, elapsed, idle, pingsIdle>>
       ELSE /\ EnterWait(ws, FALSE)
            /\ UNCHANGED <<active, link, received, sendq, bc, removedBy, fault>>
    /\ UNCHANGED <<impl, timed, client_state, nb, dbVars, added, ticks>>

\* fhir: the ping's send_json returns (or raises); the next wait begins.
PingSent(ws) ==
    /\ pc[ws] = "ping_send"
    /\ sendq[ws] # <<>> /\ Head(sendq[ws]) = HandlerTask
    /\ IF ResumeRaises(ws) = "none"
       THEN /\ sendq' = [sendq EXCEPT ![ws] = Tail(@)]
            /\ EnterWait(ws, FALSE)
            /\ UNCHANGED <<active, link, bc, removedBy, fault>>
       ELSE /\ HandlerExit(ws, ResumeRaises(ws))
            /\ UNCHANGED <<elapsed, idle, pingsIdle>>
    /\ UNCHANGED <<impl, timed, client_state, received, nb, dbVars, added, ticks>>

\* The transport of ws dies (peer closes, network failure).
KillTransport(ws) ==
    /\ pc[ws] \notin {"idle", "done"}
    /\ link[ws] = "up"
    /\ link' = [link EXCEPT ![ws] = "down"]
    /\ UNCHANGED <<impl, timed, active, pc, client_state, received, sendq, bc,
                   nb, dbVars, added, removedBy, fault, clockVars>>

\* The handler task is cancelled at its current await (server shutdown).
Cancel(ws) ==
    /\ pc[ws] \in {"accept", "init_send", "wait", "unwind", "ping_send"}
    /\ IF pc[ws] = "accept"
       THEN /\ pc' = [pc EXCEPT ![ws] = "done"]
            /\ link' = [link EXCEPT ![ws] = "down"]
            /\ UNCHANGED <<active, sendq, bc, removedBy, fault>>
       ELSE HandlerExit(ws, "CancelledError")
    /\ UNCHANGED <<impl, timed, client_state, received, nb, dbVars, added,
                   clockVars>>

\* Time passes by d units; a pending wait_for timeout fires before time
\* moves past it.
Tick(d) ==
    /\ timed
    /\ ticks < MaxTicks
    /\ \A ws \in Conns :
          (impl = "fhir" /\ pc[ws] = "wait") => elapsed[ws] + d <= Timeout
    /\ elapsed' = [ws \in Conns |->
          IF impl = "fhir" /\ pc[ws] = "wait" THEN elapsed[ws] + d ELSE elapsed[ws]]
    /\ idle' = [ws \in Conns |->
          IF pc[ws] \in {"wait", "ping_send"}
          THEN Min(idle[ws] + d, Timeout + 2) ELSE idle[ws]]
    /\ ticks' = ticks + 1
    /\ UNCHANGED <<impl, timed, active, pc, client_state, link, received, sendq,
                   bc, nb, dbVars, added, removedBy, fault, pingsIdle>>

\* ------------------------------------------------ WSManager.broadcast
\* The local state a broadcast task works on: st.b is the task's own record,
\* the other fields are the shared state it reads and writes.
LoopState(b) ==
    [active |-> active, received |-> received, sendq |-> sendq,
     removedBy |-> removedBy, fault |-> fault, b |-> bc[b]]

\* self.disconnect(ws) called from inside broadcast.
BroadcastDisconnect(st, ws) ==
    LET r == disconnect(st.active, ws) IN
    [st EXCEPT !.active = r.list,
               !.fault = (@ \/ r.err),
               !.removedBy[ws] = @ \cup {"broadcast"}]

exceptForgets(st, ws) == [st EXCEPT !.b.failed = @ \cup {ws}]

\* The except clause: chief_server records ws in drop, fhir disconnects it.
broadcast_except(st, ws) ==
    IF impl = "chief_server"
    THEN [st EXCEPT !.b.drop = Append(@, ws), !.b.failed = @ \cup {ws}]
    ELSE [BroadcastDisconnect(st, ws) EXCEPT !.b.failed = @ \cup {ws}]

closedForgets(st, ws) == [st EXCEPT !.b.failed = @ \cup {ws}]

\* fhir, client_state is not CONNECTED: else: self.disconnect(ws)
broadcast_closed(st, ws) ==
    [BroadcastDisconnect(st, ws) EXCEPT !.b.failed = @ \cup {ws}]

\* chief_server, after the loop: for ws in drop: self.disconnect(ws)
RECURSIVE broadcast_drop(_, _)
broadcast_drop(st, drop) ==
    IF drop = <<>> THEN st
    ELSE broadcast_drop(BroadcastDisconnect(st, Head(drop)), Tail(drop))

\* The list the for loop walks: self.active itself (chief_server, a live
\* list iterator) or the copy list(self.active) taken at the call (fhir).
broadcast_iter(st) == IF impl = "fhir" THEN st.b.copy ELSE st.active

\* send_json has written the frame of broadcast b; the task suspends.
broadcast_sent(b, st, ws) ==
    [st EXCEPT !.received[ws] = Append(@, PatientsFrame(b, st.b.msg.data)),
               !.sendq[ws] = Append(@, b),
               !.b.pc = "send"]

\* The for loop of broadcast from its iterator position to the next
\* suspension, to its end, or to an exception that escapes it.
RECURSIVE broadcast_loop(_, _)
broadcast_loop(b, st) ==
    LET l == broadcast_iter(st) IN
    IF st.b.i > Len(l)
    THEN [broadcast_drop(st, st.b.drop) EXCEPT
             !.b.pc = "done", !.b.copy = <<>>, !.b.drop = <<>>,
             !.b.i = 1, !.b.ws = 0]
    ELSE LET ws == l[st.b.i]
             st1 == [st EXCEPT !.b.i = @ + 1, !.b.ws = ws,
                               !.b.att = @ \cup {ws}]
             e == SendRaises(ws, st.b.msg)
         IN IF impl = "fhir" /\ client_state[ws] # "CONNECTED"
            THEN broadcast_loop(b, broadcast_closed(st1, ws))
            ELSE IF e = "none" THEN broadcast_sent(b, st1, ws)
            ELSE IF BroadcastCatches(e)
                 THEN broadcast_loop(b, broadcast_except(st1, ws))
                 ELSE [st1 EXCEPT !.b.pc = "raised"]

\* The shared state after a step of broadcast task b that ended in st.
BroadcastStep(b, st) ==
    /\ active' = st.active
    /\ received' = st.received
    /\ sendq' = st.sendq
    /\ removedBy' = st.removedBy
    /\ fault' = st.fault
    /\ bc' = Disturb([bc EXCEPT ![b] = st.b], st.active, b)
    /\ UNCHANGED <<impl, timed, connVars, nb, dbVars, added, clockVars>>

\* The event loop starts the task: broadcast runs up to its first await.
\* Tasks are started in the order create_task was called.
StartBroadcast(b) ==
    /\ bc[b].pc = "ready"
    /\ \A o \in Bcasts : o < b => bc[o].pc # "ready"
    /\ BroadcastStep(b, broadcast_loop(b,
          [LoopState(b) EXCEPT
              !.b.copy = IF impl = "fhir" THEN active ELSE <<>>,
              !.b.start = active,
              !.b.closed0 = {ws \in Range(active) : Closed(ws)},
              !.b.gone0 = {ws \in Conns : removedBy[ws] # {}}]))

\* The send the task is suspended in returns or raises; the loop goes on.
ResumeBroadcast(b) ==
    /\ bc[b].pc = "send"
    /\ sendq[bc[b].ws] # <<>> /\ Head(sendq[bc[b].ws]) = b
    /\ LET ws == bc[b].ws
           st == [LoopState(b) EXCEPT !.sendq[ws] = Tail(@)]
           e == ResumeRaises(ws)
       IN BroadcastStep(b,
             IF e = "none" THEN broadcast_loop(b, st)
             ELSE IF BroadcastCatches(e)
                  THEN broadcast_loop(b, broadcast_except(st, ws))
                  ELSE [st EXCEPT !.b.pc = "raised"])

\* ---------------------------------------------------------- write path
createTaskDropped(m) == UNCHANGED <<nb, bc>>

\* asyncio.create_task(ws_manager.broadcast(message))
create_task(m) ==
    /\ nb < MaxBcast
    /\ nb' = nb + 1
    /\ bc' = [bc EXCEPT ![nb + 1] = [NoBcast EXCEPT !.pc = "ready", !.msg = m]]

handlerAwaitsBroadcast(r) == resp' = resp /\ returned' = returned

\* The handler returns r (a 2xx) right after create_task, which does not run
\* the task.
handler_returns(r) == resp' = r /\ returned' = returned + 1

\* The handler ends with the error response r (a 4xx).
handler_rejects(r) ==
    /\ rejected < MaxRejects
    /\ resp' = r
    /\ rejected' = rejected + 1
    /\ UNCHANGED returned

\* chief_server POST /api/register-patient: INSERT OR REPLACE of the row, the
\* HL7 text if one came, then the broadcast of the list read afterwards.
register_patient(patient_data) ==
    LET id == patient_data.patient_id
        R == InsertOrReplace(rows,
                 [id |-> id, first_name |-> strip(patient_data.first_name),
                  last_name |-> strip(patient_data.last_name),
                  dob |-> patient_data.dob])
    IN /\ impl = "chief_server"
       /\ patients' = Ids(R)
       /\ rows' = R
       /\ hl7_messages' = IF patient_data.hl7_raw # <<>>
                          THEN Append(hl7_messages, patient_data.hl7_raw)
                          ELSE hl7_messages
       /\ create_task(Message(PatientList(R), TRUE))
       /\ handler_returns(Response("register_patient", 200, id, ""))
       /\ UNCHANGED <<impl, timed, active, connVars, received, sendq, nextId,
                      fhir_messages, rejected, added, removedBy, fault,
                      clockVars>>

\* A client other than Reception posts to /api/register-patient.
PostRegisterPatient(patient_data) ==
    register_patient(patient_data) /\ UNCHANGED receptionVars

validateSkipsGiven(body) ==
    IF ~body.parses THEN "bad json"
    ELSE IF body.resourceType # "Patient" THEN "not a Patient resource"
    ELSE IF strip(body.family) # "" /\ strip(body.birthDate) # ""
         THEN "ok" ELSE "missing required fields"

\* fhir_ingest's checks of the parsed body: "ok" or the error of the 400.
fhir_validate(body) ==
    IF ~body.parses THEN "bad json"
    ELSE IF body.resourceType # "Patient" THEN "not a Patient resource"
    ELSE LET family == strip(body.family)
             given == strip(IF body.given # <<>> THEN body.given[1] ELSE "")
             birthDate == strip(body.birthDate)
         IN IF family # "" /\ given # "" /\ birthDate # ""
            THEN "ok" ELSE "missing required fields"

\* fhir POST /fhir/Patient: 415 on another media type; else the raw body is
\* stored, then 400 unless the body is a complete Patient, else INSERT of the
\* row and the broadcast of the list read afterwards.
fhir_ingest(req) ==
    LET body == req.body
        R == InsertRow(rows,
                 [id |-> nextId, fhir_id |-> strip(body.id),
                  family |-> strip(body.family),
                  given |-> strip(IF body.given # <<>> THEN body.given[1] ELSE ""),
                  birthDate |-> strip(body.birthDate)])
    IN /\ impl = "fhir"
       /\ IF media_type(req.content_type)
                \notin {"application/fhir+json", "application/json"}
          THEN /\ handler_rejects(Response("fhir_ingest", 415, 0, ""))
               /\ UNCHANGED <<patients, nextId, rows, fhir_messages, bc, nb>>
          ELSE /\ fhir_messages' = Append(fhir_messages, body.raw)
               /\ IF fhir_validate(body) # "ok"
                  THEN /\ handler_rejects(Response("fhir_ingest", 400, 0,
                                                   fhir_validate(body)))
                       /\ UNCHANGED <<patients, nextId, rows, bc, nb>>
                  ELSE /\ patients' = Ids(R)
                       /\ rows' = R
                       /\ nextId' = nextId + 1
                       /\ create_task(Message(PatientList(R), TRUE))
                       /\ handler_returns(Response("fhir_ingest", 201, 0,
                                                   strip(body.id)))
                       /\ UNCHANGED rejected
       /\ UNCHANGED <<impl, timed, active, connVars, received, sendq,
                      hl7_messages, receptionVars, added, removedBy, fault,
                      clockVars>>

deleteAlwaysBroadcasts(pid) == TRUE

\* deleted = c.rowcount of DELETE FROM patients WHERE id = pid, as a test
\* deleted != 0
delete_rowcount(pid) == pid \in patients

\* fhir DELETE /api/patient/{pid}: DELETE, 404 when no row went, else the
\* broadcast of the list read afterwards.
api_delete_patient(pid) ==
    LET R == DeleteRow(rows, pid)
    IN /\ impl = "fhir"
       /\ patients' = Ids(R)
       /\ rows' = R
       /\ IF ~delete_rowcount(pid)
          THEN /\ handler_rejects(Response("api_delete_patient", 404, pid, ""))
               /\ UNCHANGED <<bc, nb>>
          ELSE /\ create_task(Message(PatientList(R), TRUE))
               /\ handler_returns(Response("api_delete_patient", 200, pid, ""))
               /\ UNCHANGED rejected
       /\ UNCHANGED <<impl, timed, active, connVars, received, sendq, nextId,
                      hl7_messages, fhir_messages, receptionVars, added,
                      removedBy, fault, clockVars>>

\* ws_manager.broadcast(message) called with a dict json.dumps rejects.
BroadcastCall ==
    /\ create_task(Message(<<>>, FALSE))
    /\ UNCHANGED <<impl, timed, active, connVars, received, sendq, dbVars, added,
                   removedBy, fault, clockVars>>

\* ------------------------------------------------ Reception (register)
\* The next AUTOINCREMENT id of Reception's patients (no row is ever deleted).
rc_lastrowid == Cardinality(rc_patients) + 1

\* register up to its await: the patient row, the HL7 text and its row, the
\* payload; the task suspends in client.post(..).
register_begin(r, p) ==
    LET patient_id == rc_lastrowid
        hl7_raw == build_hl7_adt_a04(patient_id, p.first_name, p.last_name, p.dob)
    IN /\ rc_req[r].pc = "idle"
       /\ \A o \in Reqs : o < r => rc_req[o].pc # "idle"
       /\ rc_patients' = InsertRow(rc_patients,
              [id |-> patient_id, first_name |-> strip(p.first_name),
               last_name |-> strip(p.last_name), dob |-> p.dob])
       /\ rc_hl7' = Append(rc_hl7, hl7_raw)
       /\ rc_req' = [rc_req EXCEPT ![r] =
              [NoRequest EXCEPT !.pc = "post", !.p = p,
                                !.patient_id = patient_id,
                                !.payload = PatientData(patient_id, p.first_name,
                                               p.last_name, p.dob, hl7_raw)]]
       /\ UNCHANGED <<impl, timed, active, connVars, received, sendq, bc, nb,
                      chiefDb, httpVars, added, removedBy, fault, clockVars>>

\* The POST reaches Chief, whose register_patient handles it.
ChiefReceives(r) ==
    /\ rc_req[r].pc = "post"
    /\ ~rc_req[r].delivered
    /\ register_patient(rc_req[r].payload)
    /\ rc_req' = [rc_req EXCEPT ![r].delivered = TRUE]
    /\ UNCHANGED <<rc_patients, rc_hl7>>

registerRaises(q, o) ==
    IF o = "success"
    THEN [status |-> 200, id |-> q.patient_id, first_name |-> q.p.first_name,
          last_name |-> q.p.last_name, dob |-> q.p.dob]
    ELSE [status |-> 500, id |-> 0, first_name |-> "", last_name |-> "",
          dob |-> ""]

\* What register answers when the POST has ended in o: every exception of
\* the POST is caught, then return {"id": patient_id, **p.model_dump()}.
register_result(q, o) ==
    [status |-> 200, id |-> q.patient_id, first_name |-> q.p.first_name,
     last_name |-> q.p.last_name, dob |-> q.p.dob]

\* The POST ends (response, raise_for_status, or an exception) and register
\* returns.
register_end(r, o) ==
    /\ rc_req[r].pc = "post"
    /\ o = "success" => rc_req[r].delivered
    /\ o = "connect_error" => ~rc_req[r].delivered
    /\ rc_req' = [rc_req EXCEPT ![r].pc = "done", ![r].outcome = o,
                                ![r].result = register_result(rc_req[r], o)]
    /\ UNCHANGED <<impl, timed, active, connVars, received, sendq, bc, nb,
                   chiefDb, httpVars, rc_patients, rc_hl7, added, removedBy,
                   fault, clockVars>>

\* ------------------------------------------------------ specifications
HandlerNext ==
    \E ws \in Conns :
        \/ Open(ws)
        \/ Accepted(ws)
        \/ AcceptFails(ws)
        \/ InitSent(ws)
        \/ ClientMessage(ws)
        \/ ClientBinary(ws)
        \/ RecvDisconnect(ws)
        \/ Unwind(ws)
        \/ TimeoutFires(ws)
        \/ PingSent(ws)
        \/ KillTransport(ws)

Next ==
    \/ HandlerNext
    \/ \E d \in PlainDeliveries : PostRegisterPatient(d)
    \/ \E q \in PlainRequests : fhir_ingest(q)
    \/ \E pid \in patients : api_delete_patient(pid)
    \/ \E b \in Bcasts : StartBroadcast(b)
    \/ \E b \in Bcasts : ResumeBroadcast(b)

Spec == Init /\ [][Next]_vars

\* broadcast() taken as a unit: any dict may be passed to it.
NextContract == Next \/ BroadcastCall

SpecContract == Init /\ [][NextContract]_vars

\* With cancellation of handler tasks (server shutdown).
NextCancel == Next \/ \E ws \in Conns : Cancel(ws)

SpecCancel == Init /\ [][NextCancel]_vars

\* With time: the connections and their heartbeat loops alone.
NextTimed == HandlerNext \/ \E d \in TickSteps : Tick(d)

SpecTimed == InitTimed /\ [][NextTimed]_vars

\* The steps of a chief_ws task that the event loop runs once they are ready:
\* a completed accept, a completed send, a disconnect or error delivered to
\* the pending receive.
HandlerStep(ws) ==
    \/ Accepted(ws)
    \/ AcceptFails(ws)
    \/ InitSent(ws)
    \/ RecvDisconnect(ws)
    \/ Unwind(ws)
    \/ PingSent(ws)

\* The steps of a broadcast task the event loop runs once they are ready.
BroadcastRuns(b) == StartBroadcast(b) \/ ResumeBroadcast(b)

\* A step of some task that is ready to run.
TaskStep ==
    \/ \E ws \in Conns : HandlerStep(ws)
    \/ \E b \in Bcasts : BroadcastRuns(b)

\* The connections, their loops and the broadcasts of the first
\* MaxLiveBcast write requests.
NextLive ==
    \/ HandlerNext
    \/ nb < MaxLiveBcast /\ \E d \in PlainDeliveries : PostRegisterPatient(d)
    \/ nb < MaxLiveBcast /\ \E q \in PlainRequests : fhir_ingest(q)
    \/ \E b \in Bcasts : StartBroadcast(b)
    \/ \E b \in Bcasts : ResumeBroadcast(b)

\* The event loop keeps running while a task is ready (FIFO ready queue);
\* clients, the network and the timer are not constrained.
SpecLive == Init /\ [][NextLive]_vars /\ WF_vars(TaskStep)

\* The write path with all its inputs, on a stored table: the handlers and
\* the broadcasts they trigger (no dashboard is connected).
NextStore ==
    \/ \E d \in Deliveries : PostRegisterPatient(d)
    \/ \E q \in Requests : fhir_ingest(q)
    \/ \E pid \in Pids \cup {nextId - 1, nextId} : api_delete_patient(pid)
    \/ \E b \in Bcasts : StartBroadcast(b)

SpecStore == InitStore /\ [][NextStore]_vars

\* The patient lists on their way to the dashboards, on a stored table: the
\* snapshot of a joining connection, the write path and its broadcasts.
NextFeed ==
    \/ \E ws \in Conns : Open(ws) \/ Accepted(ws) \/ InitSent(ws)
    \/ \E d \in PlainDeliveries : PostRegisterPatient(d)
    \/ \E q \in PlainRequests : fhir_ingest(q)
    \/ \E pid \in patients : api_delete_patient(pid)
    \/ \E b \in Bcasts : StartBroadcast(b)
    \/ \E b \in Bcasts : ResumeBroadcast(b)

SpecFeed == InitStore /\ [][NextFeed]_vars

\* Reception's register and the Chief it notifies.
NextReception ==
    \/ \E r \in Reqs : \E p \in PatientIns : register_begin(r, p)
    \/ \E r \in Reqs : ChiefReceives(r)
    \/ \E r \in Reqs : \E o \in Outcomes : register_end(r, o)
    \/ \E b \in Bcasts : StartBroadcast(b)

SpecReception == InitReception /\ [][NextReception]_vars

\* -------------------------------------------------------------- claims
\* C1: after any sequence of connect and disconnect calls the registry holds
\* exactly the connections that were added and not removed since, each of
\* them once.
C1_RegistryExact ==
    /\ NoDup(active)
    /\ Range(active) = {ws \in added : removedBy[ws] = {}}

C1_Witness ==
    \E a, c \in Conns :
        /\ a \in added /\ removedBy[a] # {}
        /\ c \in Range(active)

\* The step in which broadcast b finishes, no other task having changed the
\* registry while it ran and exactly one of its deliveries having failed.
C2_Finishes(b) ==
    /\ bc[b].pc # "done"
    /\ bc'[b].pc = "done"
    /\ ~bc'[b].disturbed
    /\ Cardinality(bc'[b].failed) = 1

\* C2: a broadcast over N connections during which no other task changes the
\* registry and delivery to exactly one connection k fails ends with the
\* registry holding the other N-1 connections, each of which got the event
\* exactly once; no exception leaves broadcast.
C2_OneFailure ==
    [][\A b \in Bcasts :
          /\ bc'[b].pc # "raised"
          /\ C2_Finishes(b) =>
                /\ NoDup(active')
                /\ Range(active') = Range(bc'[b].start) \ bc'[b].failed
                /\ \A ws \in Range(bc'[b].start) \ bc'[b].failed :
                      CountFrames(received'[ws], "patients", b) = 1]_vars

C2_Witness ==
    \E b \in Bcasts :
        /\ bc[b].pc = "done"
        /\ ~bc[b].disturbed
        /\ Cardinality(bc[b].failed) = 1
        /\ Len(bc[b].start) >= 2
        /\ Range(active) = Range(bc[b].start) \ bc[b].failed

\* C3: in fhir's broadcast a delivery failure of any kind (closed socket,
\* transport error, serialization error) is not raised to the caller, does
\* not keep the later connections from being attempted, and the failing
\* connection is removed from the registry.
C3_FailureIsolated ==
    impl = "fhir" =>
        \A b \in Bcasts :
            /\ bc[b].pc # "raised"
            /\ bc[b].pc = "done" =>
                  /\ bc[b].att = Range(bc[b].start)
                  /\ bc[b].failed \cap Range(active) = {}

\* C4: one broadcast call attempts delivery to exactly the connections that
\* were registered when the call started, whatever connects or disconnects
\* while it is suspended in a send.
C4_SnapshotAtCall ==
    \A b \in Bcasts :
        /\ bc[b].pc \in {"send", "done"} => bc[b].att \subseteq Range(bc[b].start)
        /\ bc[b].pc = "done" => Range(bc[b].start) \subseteq bc[b].att

\* C5: a connection that receives the events of two broadcasts receives them
\* in the order the broadcasts were triggered.
C5_PerConnectionFifo ==
    \A ws \in Conns : \A b1, b2 \in Bcasts :
        (/\ b1 < b2
         /\ FirstFrom(received[ws], b1) > 0
         /\ FirstFrom(received[ws], b2) > 0)
        => FirstFrom(received[ws], b1) < FirstFrom(received[ws], b2)

\* C6: the first frame a connection receives is the patient list sent by its
\* own chief_ws handler; no broadcast frame comes before it.
C6_SnapshotFirst ==
    \A ws \in Conns :
        received[ws] # <<>> =>
            /\ received[ws][1].type = "patients"
            /\ received[ws][1].src = HandlerTask

C6_Witness ==
    \E ws \in Conns : \E b \in Bcasts :
        /\ ws \notin Range(bc[b].start)
        /\ CountFrames(received[ws], "patients", b) = 1

\* C7: an open connection that has been idle for 31 time units (one timeout
\* of 30 has elapsed with no traffic) has been sent exactly one ping.
C7_OnePingPerTimeout ==
    \A ws \in Conns :
        (IsOpen(ws) /\ idle[ws] = Timeout + 1) => pingsIdle[ws] = 1

\* C8: once the chief_ws handler of a connection has finished, for whatever
\* reason, the connection is not in the registry.
C8_ExitRemoves ==
    \A ws \in Conns : pc[ws] = "done" => ws \notin Range(active)

C10_DisconnectIdempotent ==
    /\ ~fault
    /\ \A c \in Conns :
          LET r1 == disconnect(active, c)
              r2 == disconnect(r1.list, c)
          IN /\ ~r1.err /\ ~r2.err
             /\ r2.list = r1.list
             /\ c \notin Range(active) => r1.list = active
             /\ c \notin Range(r1.list)

C10_Witness ==
    \E ws \in Conns : removedBy[ws] = {"handler", "broadcast"}

\* C11: a write-path handler has returned its response while the broadcast
\* it triggered is still waiting to start or suspended in a send; a client
\* that never finishes a send keeps no handler from answering.
C11_HandlerNotBlocked ==
    \A b \in Bcasts : bc[b].pc \in {"ready", "send"} => returned >= b

\* Broadcast b1 is suspended in a send; c joined after b1 started and got the
\* list of b1's mutation as its snapshot; the next mutation's handler has
\* since returned and its broadcast b2 has not started.
C11_Witness ==
    \E b1, b2 \in Bcasts : \E c \in Conns :
        /\ b1 < b2
        /\ bc[b1].pc = "send"
        /\ link[bc[b1].ws] = "up"
        /\ bc[b2].pc = "ready"
        /\ returned = b2
        /\ c \notin Range(bc[b1].start)
        /\ removedBy[c] = {}
        /\ received[c] # <<>>
        /\ received[c][1].data = bc[b1].msg.data
        /\ bc[b2].msg.data # bc[b1].msg.data

\* C13: when the chief_ws loop of a connection receives a frame from its
\* peer, text or binary, the registry is unchanged, no frame is sent to any
\* connection and the loop goes back to waiting.
C13_InboundIgnored ==
    [][\A ws \in Conns :
          (ClientMessage(ws) \/ ClientBinary(ws)) =>
              /\ active' = active
              /\ received' = received
              /\ pc'[ws] = "wait"]_vars

\* C15: a connection on which disconnect has been called is never in the
\* registry again, and a broadcast that starts after that never attempts a
\* delivery to it.
C15_PermanentDrop ==
    /\ \A ws \in Conns : removedBy[ws] # {} => ws \notin Range(active)
    /\ \A b \in Bcasts : bc[b].att \cap bc[b].gone0 = {}

C15_Witness ==
    \E b \in Bcasts :
        /\ bc[b].pc = "done"
        /\ bc[b].gone0 # {}
        /\ bc[b].att # {}

\* C12: once the transport of a connection whose chief_ws is past the accept
\* is dead, the handler eventually ends and the connection is eventually out
\* of the registry.
C12_DeadTransportUnwinds ==
    \A ws \in Conns :
        (link[ws] = "down" /\ pc[ws] \in {"init_send", "wait", "ping_send", "unwind"})
            ~> (pc[ws] = "done" /\ ws \notin Range(active))

C12_Witness ==
    \E ws \in Conns :
        /\ link[ws] = "down"
        /\ pc[ws] = "wait"
        /\ client_state[ws] = "CONNECTED"
        /\ ws \in Range(active)

\* A step in which a write-path handler has answered.
Answered == returned' # returned \/ rejected' # rejected

\* C14: every committed mutation of table patients (an insert by
\* register_patient or fhir_ingest, a delete by api_delete_patient) creates
\* exactly one broadcast task, whose message is the patient list read after
\* the commit; nothing else creates one.
C14_OneBroadcastPerMutation ==
    [][/\ (rows' # rows \/ returned' # returned) =>
              /\ nb' = nb + 1
              /\ returned' = returned + 1
              /\ bc'[nb'] = [NoBcast EXCEPT !.pc = "ready",
                                           !.msg = Message(PatientList(rows'), TRUE)]
              /\ \A b \in Bcasts \ {nb'} : bc'[b] = bc[b]
       /\ nb' # nb => (rows' # rows \/ returned' # returned)]_vars

C14_Witness ==
    /\ nb = 2
    /\ resp.handler = "api_delete_patient"
    /\ resp.status = 200
    /\ bc[2].msg.data = PatientList(rows)
    /\ bc[2].msg.data # bc[1].msg.data
    /\ Len(bc[2].msg.data) = Limit

\* C16: whatever the POST to Chief ends in (success, timeout, connection
\* error, non-2xx status), Reception's register answers 200 with the patient
\* as sent and its new id, and the patient row and the HL7 row it inserted
\* before the POST are stored.
C16_BestEffort ==
    /\ \A r \in Reqs :
          rc_req[r].pc = "done" =>
              LET q == rc_req[r] IN
              /\ q.result = [status |-> 200, id |-> q.patient_id,
                             first_name |-> q.p.first_name,
                             last_name |-> q.p.last_name, dob |-> q.p.dob]
              /\ {x \in rc_patients : x.id = q.patient_id}
                    = {[id |-> q.patient_id, first_name |-> strip(q.p.first_name),
                        last_name |-> strip(q.p.last_name), dob |-> q.p.dob]}
              /\ \E i \in 1..Len(rc_hl7) :
                    rc_hl7[i] = build_hl7_adt_a04(q.patient_id, q.p.first_name,
                                                  q.p.last_name, q.p.dob)
    /\ \A r1, r2 \in Reqs :
          (r1 # r2 /\ rc_req[r1].pc # "idle" /\ rc_req[r2].pc # "idle")
              => rc_req[r1].patient_id # rc_req[r2].patient_id

C16_Witness ==
    \E r1, r2 \in Reqs :
        /\ rc_req[r1].pc = "done" /\ rc_req[r1].outcome = "timeout"
        /\ rc_req[r1].delivered
        /\ rc_req[r2].pc = "done" /\ rc_req[r2].outcome = "non_2xx"
        /\ ~rc_req[r2].delivered

\* C17: api_delete_patient on an id no row has answers 404, leaves table
\* patients as it is and creates no broadcast task; a delete creates a
\* broadcast task only when it removed a row.
C17_DeleteMissing ==
    [][(Answered /\ resp'.handler = "api_delete_patient") =>
          /\ resp'.id \notin Ids(rows) =>
                /\ resp'.status = 404
                /\ rows' = rows /\ patients' = patients
                /\ nb' = nb /\ bc' = bc
          /\ nb' # nb =>
                /\ resp'.id \in Ids(rows)
                /\ resp'.id \notin Ids(rows')]_vars

C17_Witness ==
    /\ resp.handler = "api_delete_patient"
    /\ resp.status = 404
    /\ rows # {}
    /\ nb = 1

\* C18: a delivery to register_patient leaves exactly one row with its
\* patient_id, carrying the fields of that delivery (names stripped), leaves
\* the other rows alone and creates a broadcast task, also when a row with
\* that id was stored before; no two rows ever share an id.
C18_ReplaceById ==
    [][/\ \A r1, r2 \in rows' : r1.id = r2.id => r1 = r2
       /\ \A d \in Deliveries :
             PostRegisterPatient(d) =>
                 /\ {r \in rows' : r.id = d.patient_id}
                       = {[id |-> d.patient_id, first_name |-> strip(d.first_name),
                           last_name |-> strip(d.last_name), dob |-> d.dob]}
                 /\ {r \in rows' : r.id # d.patient_id}
                       = {r \in rows : r.id # d.patient_id}
                 /\ nb' = nb + 1]_vars

C18_Witness ==
    \E i, j \in 1..Limit :
        /\ nb = 2
        /\ i <= Len(bc[1].msg.data) /\ j <= Len(bc[2].msg.data)
        /\ bc[1].msg.data[i].id = bc[2].msg.data[j].id
        /\ bc[1].msg.data[i].first_name = "Bob"
        /\ bc[2].msg.data[j].first_name = "Ann"
        /\ resp.handler = "register_patient"
        /\ resp.id = bc[2].msg.data[j].id
        /\ Cardinality(rows) > 1

\* A list of at most Limit patient dicts in strictly descending id order.
ListShape(d) ==
    /\ Len(d) <= Limit
    /\ \A i, j \in 1..Len(d) : i < j => d[i].id > d[j].id

\* d is built from the rows of R with the highest ids, all of them when R
\* has no more than Limit rows.
TopOf(d, R) ==
    /\ ListShape(d)
    /\ {d[i].id : i \in 1..Len(d)}
          = {p \in Ids(R) : Cardinality({q \in Ids(R) : q > p}) < Limit}
    /\ \A i \in 1..Len(d) : d[i] = patient_dicts(<<d[i].id>>, R)[1]

\* C19: the payload of every patient-list event, the snapshot sent to a
\* joining connection or the message of a broadcast, holds at most 10
\* records in strictly descending id order, and when it is read they are
\* the stored records with the highest ids.
C19_TopTenDescending ==
    [][/\ nb' # nb => TopOf(bc'[nb'].msg.data, rows')
       /\ \A ws \in Conns :
             (pc[ws] = "accept" /\ pc'[ws] = "init_send") =>
                 TopOf(received'[ws][Len(received'[ws])].data, rows')
       /\ \A ws \in Conns : \A k \in 1..Len(received'[ws]) :
             received'[ws][k].type = "patients" =>
                 /\ ListShape(received'[ws][k].data)
                 /\ received'[ws][k].src # HandlerTask =>
                       received'[ws][k].data = bc'[received'[ws][k].src].msg.data]_vars

C19_Witness ==
    \E ws \in Conns :
        /\ Cardinality(rows) > Limit
        /\ Len(received[ws]) >= 2
        /\ Len(received[ws][1].data) = Limit
        /\ received[ws][2].src # HandlerTask
        /\ Len(received[ws][2].data) = Limit
        /\ received[ws][2].data # received[ws][1].data

\* The requests of the input set that carry a supported media type, and the
\* bodies that are a Patient with family, given and birthDate.
SupportedType(q) ==
    q.content_type \in {"application/fhir+json", "Application/JSON; charset=utf-8"}

CompletePatient(body) == body.raw \in {"ann", "bob"}

\* C20: a fhir_ingest request answered 415 changes no table and creates no
\* broadcast task; one answered 400 leaves table patients alone and creates
\* no broadcast task, its raw body having been appended to fhir_messages;
\* only a request of a supported type with a complete Patient inserts a row.
C20_IngestRejects ==
    [][\A q \in Requests :
          fhir_ingest(q) =>
              /\ resp'.status = (IF ~SupportedType(q) THEN 415
                                 ELSE IF ~CompletePatient(q.body) THEN 400
                                 ELSE 201)
              /\ resp'.status = 415 =>
                    /\ rows' = rows /\ patients' = patients /\ nextId' = nextId
                    /\ fhir_messages' = fhir_messages
                    /\ nb' = nb /\ bc' = bc
              /\ resp'.status = 400 =>
                    /\ rows' = rows /\ patients' = patients /\ nextId' = nextId
                    /\ fhir_messages' = Append(fhir_messages, q.body.raw)
                    /\ nb' = nb /\ bc' = bc
              /\ rows' # rows =>
                    /\ SupportedType(q) /\ CompletePatient(q.body)
                    /\ Cardinality(rows') = Cardinality(rows) + 1
                    /\ fhir_messages' = Append(fhir_messages, q.body.raw)]_vars

\* A 400 (first), a 201 and a 415 (last) have been answered.
C20_Witness ==
    /\ resp.handler = "fhir_ingest"
    /\ resp.status = 415
    /\ rejected = 2
    /\ Len(fhir_messages) = 2
    /\ fhir_messages[1] = "garbage"
    /\ Cardinality(rows) = 1

====
